---- MODULE Spec2Model ----
(***************************************************************************)
(* The epoll reactor of src/src/Epoll.cpp and src/src/Epoll.h: the         *)
(* registry of monitored descriptors, the kernel subscriptions it issues,  *)
(* and the wait-and-dispatch loop of Epoll::waitForEvents, whose callbacks *)
(* may call back into the reactor.                                         *)
(*                                                                         *)
(* A uint32_t event mask is modelled as the set of the bits set in it:     *)
(* a | b is the union, a & b the intersection, 0 the empty set, and a      *)
(* single event type such as EPOLLIN is a one-element set.                 *)
(***************************************************************************)
EXTENDS Integers, Sequences, FiniteSets, TLC

\* ---- bounds of the model ------------------------------------------------
\* descriptors are 1..MaxFd
MaxFd == 2
\* callbacks are 1..NumCb; 0 is the empty std::function (nullptr)
NumCb == 2
\* calls of the public interface made by the caller (outside of callbacks)
MaxOps == 4
\* times the callbacks call back into the public interface
MaxCbOps == 1
\* pairs that one epoll_wait reports (at most _maxEventsNum in the code)
MaxBatch == 2
\* calls of waitForEvents
MaxWaits == 1
\* system calls (fcntl, epoll_ctl ADD/MOD) that the environment makes fail
MaxFail == 1

\* ---- constants of the program -------------------------------------------
EPOLLIN == {"IN"}
EPOLLOUT == {"OUT"}
EPOLLRDHUP == {"RDHUP"}
EPOLLPRI == {"PRI"}
EPOLLERR == {"ERR"}
EPOLLHUP == {"HUP"}
EPOLLET == {"ET"}

allEventTypes == <<EPOLLIN, EPOLLOUT, EPOLLRDHUP, EPOLLPRI, EPOLLERR, EPOLLHUP>>

NumEventTypes == Len(allEventTypes)

\* the six event bits
Cats == UNION {allEventTypes[n] : n \in 1..NumEventTypes}

nullptr == 0

\* Epoll::_maxEventsNum, the most pairs one epoll_wait call may write
maxEventsNum == 10

Fds == 1..MaxFd
Callbacks == 1..NumCb
Handlers == Callbacks \cup {nullptr}

\* the masks the callers of the model pass to add/removeEventHandler
MaskInputs ==
    { EPOLLIN, EPOLLIN \cup EPOLLOUT, EPOLLRDHUP \cup EPOLLHUP,
      EPOLLPRI \cup EPOLLERR \cup EPOLLET }

\* the masks the handlers of the model pass to add/removeEventHandler
CallbackMaskInputs == { EPOLLIN \cup EPOLLOUT, EPOLLRDHUP \cup EPOLLHUP }

\* the event sets epoll_wait reports for one descriptor in the model
EventInputs ==
    { EPOLLIN, EPOLLIN \cup EPOLLHUP, EPOLLHUP, EPOLLRDHUP, EPOLLIN \cup EPOLLOUT,
      EPOLLPRI \cup EPOLLERR }

\* "no entry for this key" in _monitoredFds, "no subscription" in the kernel
Absent == [present |-> FALSE]
NoSub == {"no subscription"}

VARIABLES
    isEdgeTriggered, \* Epoll::_isEdgeTriggered
    monitoredFds,    \* Epoll::_monitoredFds: fd -> MonitoredDescriptor or Absent
    kernel,          \* the interest list of _epollFd: fd -> mask or NoSub
    nonBlocking,     \* O_NONBLOCK of each descriptor
    pc,              \* "idle" | "dispatch" (in the loops) | "callback" (in a handler)
    batch,           \* the pairs epoll_wait wrote to _eventsVector
    i,               \* index of the outer loop of waitForEvents (1-based)
    k,               \* index into allEventTypes of the inner loop
    log,             \* the handler invocations of this waitForEvents call
    result,          \* how the last waitForEvents call ended
    last,            \* the last interface call: operation, arguments, exception or "none"
    nops,            \* calls made by the caller
    cbops,           \* calls made by callbacks
    waits,           \* calls of waitForEvents
    kcalls,          \* epoll_ctl calls of the last caller operation / wait cycle
    fails,           \* system calls the environment made fail
    reg0,            \* _monitoredFds when the current waitForEvents call began
    cbCalls,         \* the interface calls <<operation, fd>> made by callbacks of this cycle
    removed,         \* descriptors removeDescriptor erased, not passed to addDescriptor since
    fresh            \* descriptors added again after a removal, no handler call for them since

vars == <<isEdgeTriggered, monitoredFds, kernel, nonBlocking, pc, batch, i, k,
          log, result, last, nops, cbops, waits, kcalls, fails, reg0, cbCalls,
          removed, fresh>>

\* ---- MonitoredDescriptor --------------------------------------------------

\* MonitoredDescriptor::MonitoredDescriptor: not initialized, six empty handlers
NewDescriptor == [isInitialized |-> FALSE, h |-> [c \in Cats |-> nullptr]]

Descriptors == [isInitialized : BOOLEAN, h : [Cats -> Handlers]]

\* the cases of the switch statements: eventType is exactly one of the six
IsEventType(eventType) == \E n \in 1..NumEventTypes : eventType = allEventTypes[n]

\* the handler field a case of the switch selects
Slot(eventType) == CHOOSE c \in Cats : eventType = {c}

hasHandler(md, eventType) ==
    IF IsEventType(eventType) THEN md.h[Slot(eventType)] # nullptr ELSE FALSE

\* the switch without the return of its first case: EPOLLIN falls through to EPOLLOUT
setHandler_FallThrough(md, eventType, handler) ==
    IF eventType = EPOLLIN
    THEN [md EXCEPT !.h["IN"] = handler, !.h["OUT"] = handler]
    ELSE IF IsEventType(eventType)
    THEN [md EXCEPT !.h[Slot(eventType)] = handler]
    ELSE md

setHandler(md, eventType, handler) ==
    IF IsEventType(eventType)
    THEN [md EXCEPT !.h[Slot(eventType)] = handler]
    ELSE md

\* "invalid" stands for the std::runtime_error of the default case
getHandler(md, eventType) ==
    IF IsEventType(eventType) THEN md.h[Slot(eventType)] ELSE "invalid"

\* ---- the kernel -------------------------------------------------------------

\* epoll_ctl(_epollFd, op, fd, &ev): ADD needs a descriptor that is not in the
\* interest list, MOD and DEL one that is; envOk is FALSE when the call fails
\* for a reason outside the reactor (EBADF, ENOMEM, EPERM).
EpollCtl(ker, op, fd, events, envOk) ==
    LET success == envOk /\ (IF op = "ADD" THEN ker[fd] = NoSub ELSE ker[fd] # NoSub)
    IN  [ker |-> IF ~success THEN ker
                 ELSE IF op = "DEL" THEN [ker EXCEPT ![fd] = NoSub]
                 ELSE [ker EXCEPT ![fd] = events],
         ok  |-> success,
         ctl |-> <<[op |-> op, fd |-> fd, events |-> events, ok |-> success]>>]

\* what epoll_wait may report for a descriptor subscribed with mask sub:
\* the requested event types, and EPOLLERR and EPOLLHUP, which are always reported
Reportable(sub) ==
    {ev \in EventInputs : ev \subseteq ((sub \cap Cats) \cup EPOLLERR \cup EPOLLHUP)}

ReportPairs(ker) ==
    UNION { {[fd |-> fd, events |-> ev] : ev \in Reportable(ker[fd])} :
            fd \in {f \in Fds : ker[f] # NoSub} }

\* the batches one epoll_wait call may write: each ready descriptor once, at
\* most _maxEventsNum pairs; the empty batch is a timeout or a failed wait
\* (numOfEvents <= 0). _eventsVector has its storage reserved but size 0; the
\* pairs are read back from the reserved storage epoll_wait wrote to.
Reports(ker) ==
    UNION { {b \in [1..n -> ReportPairs(ker)] :
                \A x, y \in 1..n : x # y => b[x].fd # b[y].fd} :
            n \in 0..(IF MaxBatch < maxEventsNum THEN MaxBatch ELSE maxEventsNum) }

\* ---- private members of Epoll -----------------------------------------------

\* the mask with EPOLLET or-ed in only when some handler is set
ResultingEvents_BareNoFlag(md) ==
    LET evs == UNION {allEventTypes[n] :
                        n \in {m \in 1..NumEventTypes : hasHandler(md, allEventTypes[m])}}
    IN  IF isEdgeTriggered /\ evs # {} THEN evs \cup EPOLLET ELSE evs

\* Epoll::_reloadEventHandlers, the mask it computes
ResultingEvents(md) ==
    UNION {allEventTypes[n] : n \in {m \in 1..NumEventTypes : hasHandler(md, allEventTypes[m])}}
        \cup (IF isEdgeTriggered THEN EPOLLET ELSE {})

\* _reloadEventHandlers setting isInitialized before the EPOLL_CTL_ADD call
ReloadEventHandlers_FlagFirst(md, fd, ker, envOk) ==
    LET r == EpollCtl(ker, IF md.isInitialized THEN "MOD" ELSE "ADD", fd,
                      ResultingEvents(md), envOk)
    IN  [md |-> [md EXCEPT !.isInitialized = TRUE], ker |-> r.ker, ctl |-> r.ctl,
         err |-> IF r.ok THEN "none" ELSE "runtime_error"]

\* Epoll::_reloadEventHandlers: err is the exception that leaves it, if any
ReloadEventHandlers(md, fd, ker, envOk) ==
    IF md.isInitialized
    THEN LET r == EpollCtl(ker, "MOD", fd, ResultingEvents(md), envOk)
         IN  [md |-> md, ker |-> r.ker, ctl |-> r.ctl,
              err |-> IF r.ok THEN "none" ELSE "runtime_error"]
    ELSE LET r == EpollCtl(ker, "ADD", fd, ResultingEvents(md), envOk)
         IN  [md |-> IF r.ok THEN [md EXCEPT !.isInitialized = TRUE] ELSE md,
              ker |-> r.ker, ctl |-> r.ctl,
              err |-> IF r.ok THEN "none" ELSE "runtime_error"]

\* ---- helpers of the public interface ------------------------------------------

\* operator[] assignment in place of try_emplace: an existing entry is replaced
TryEmplace_Overwrite(reg, fd) == [reg EXCEPT ![fd] = NewDescriptor]

\* _monitoredFds.try_emplace(fd, fd)
TryEmplace(reg, fd) ==
    IF reg[fd] = Absent THEN [reg EXCEPT ![fd] = NewDescriptor] ELSE reg

\* operator[] in place of at(): a missing entry is inserted by the lookup
At_Bracket(reg, fd) == TryEmplace(reg, fd)

\* _monitoredFds.at(monitoredFd): the registry as the lookup leaves it; the
\* lookup throws std::out_of_range when fd has no entry in it
At(reg, fd) == reg

\* the loop with a break after the first event type of the mask
SetHandlers_First(md, eventType, handler, n) ==
    LET hit == {m \in 1..NumEventTypes : (eventType \cap allEventTypes[m]) # {}}
    IN  IF hit = {} THEN md
        ELSE setHandler(md, allEventTypes[CHOOSE m \in hit : \A o \in hit : m <= o], handler)

\* the loop testing hasHandler(evt) instead of hasHandler(eventType & evt)
ClearHandlers_All(md, eventType, n) == [md EXCEPT !.h = [c \in Cats |-> nullptr]]

\* the loop of Epoll::addEventHandler over allEventTypes
RECURSIVE SetHandlers(_, _, _, _)
SetHandlers(md, eventType, handler, n) ==
    IF n > NumEventTypes THEN md
    ELSE SetHandlers(IF (eventType \cap allEventTypes[n]) # {}
                     THEN setHandler(md, allEventTypes[n], handler)
                     ELSE md,
                     eventType, handler, n + 1)

\* the loop of Epoll::removeEventHandler over allEventTypes
RECURSIVE ClearHandlers(_, _, _)
ClearHandlers(md, eventType, n) ==
    IF n > NumEventTypes THEN md
    ELSE ClearHandlers(IF hasHandler(md, eventType \cap allEventTypes[n])
                       THEN setHandler(md, eventType \cap allEventTypes[n], nullptr)
                       ELSE md,
                       eventType, n + 1)

\* removeDescriptor keeping the entry when EPOLL_CTL_DEL fails
RemoveDescriptorEffect_EraseOnSuccess(reg, ker, fd) ==
    IF reg[fd] # Absent
    THEN LET r == EpollCtl(ker, "DEL", fd, {}, TRUE)
         IN  [reg |-> IF r.ok THEN [reg EXCEPT ![fd] = Absent] ELSE reg,
              ker |-> r.ker, ctl |-> r.ctl]
    ELSE [reg |-> reg, ker |-> ker, ctl |-> <<>>]

\* removeDescriptor without _epollCtlDelete: the entry goes, the kernel keeps fd
RemoveDescriptorEffect_NoDelete(reg, ker, fd) ==
    [reg |-> [reg EXCEPT ![fd] = Absent], ker |-> ker, ctl |-> <<>>]

\* removeDescriptor without the erase: the kernel forgets fd, the entry stays
RemoveDescriptorEffect_NoErase(reg, ker, fd) ==
    IF reg[fd] # Absent
    THEN LET r == EpollCtl(ker, "DEL", fd, {}, TRUE)
         IN  [reg |-> reg, ker |-> r.ker, ctl |-> r.ctl]
    ELSE [reg |-> reg, ker |-> ker, ctl |-> <<>>]

\* Epoll::removeDescriptor on a registry and an interest list
RemoveDescriptorEffect(reg, ker, fd) ==
    IF reg[fd] # Absent
    THEN LET r == EpollCtl(ker, "DEL", fd, {}, TRUE)
         IN  [reg |-> [reg EXCEPT ![fd] = Absent], ker |-> r.ker, ctl |-> r.ctl]
    ELSE [reg |-> reg, ker |-> ker, ctl |-> <<>>]

\* ---- initial state ------------------------------------------------------------

NoCall == [op |-> "none", fd |-> 0, events |-> {}, cb |-> nullptr, err |-> "none",
           fresh |-> FALSE]

\* Epoll::Epoll: an empty registry, an empty interest list, the mode as given
Init ==
    /\ isEdgeTriggered \in BOOLEAN
    /\ monitoredFds = [f \in Fds |-> Absent]
    /\ kernel = [f \in Fds |-> NoSub]
    /\ nonBlocking = [f \in Fds |-> FALSE]
    /\ pc = "idle"
    /\ batch = <<>>
    /\ i = 1
    /\ k = 1
    /\ log = <<>>
    /\ result = "none"
    /\ last = NoCall
    /\ nops = 0
    /\ cbops = 0
    /\ waits = 0
    /\ kcalls = <<>>
    /\ fails = 0
    /\ reg0 = [f \in Fds |-> Absent]
    /\ cbCalls = {}
    /\ removed = {}
    /\ fresh = {}

\* ---- the public interface, called by the caller or from inside a callback ---

InCallback == pc = "callback"

\* the caller calls between waitForEvents calls, a callback during one
CanCall == (pc = "idle" /\ nops < MaxOps) \/ (InCallback /\ cbops < MaxCbOps)

\* the environment may make a system call fail (envOk = FALSE)
EnvChoice(envOk) ==
    /\ envOk \/ fails < MaxFail
    /\ fails' = IF envOk THEN fails ELSE fails + 1

\* the descriptors the epoll_ctl calls ctl were told to forget: removeDescriptor
\* issues EPOLL_CTL_DEL for exactly the descriptors it erases
Forgotten(ctl) == {ctl[n].fd : n \in {m \in 1..Len(ctl) : ctl[m].op = "DEL"}}

\* bookkeeping of one call of the interface: what was called and how it ended
Called(op, fd, events, cb, err, ctl) ==
    /\ last' = [op |-> op, fd |-> fd, events |-> events, cb |-> cb, err |-> err,
                fresh |-> fd \in fresh]
    /\ removed' = IF op = "addDescriptor" THEN removed \ {fd}
                  ELSE removed \cup Forgotten(ctl)
    /\ fresh' = IF op = "addDescriptor"
                THEN (IF fd \in removed THEN fresh \cup {fd} ELSE fresh)
                ELSE IF op = "removeDescriptor" THEN fresh \ Forgotten(ctl)
                ELSE fresh \ {fd}
    /\ nops' = IF InCallback THEN nops ELSE nops + 1
    /\ cbops' = IF InCallback THEN cbops + 1 ELSE cbops
    /\ cbCalls' = IF InCallback THEN cbCalls \cup {<<op, fd>>} ELSE {}
    /\ kcalls' = IF InCallback THEN kcalls \o ctl ELSE ctl
    /\ result' = IF InCallback THEN result ELSE "none"
    /\ batch' = IF InCallback THEN batch ELSE <<>>
    /\ log' = IF InCallback THEN log ELSE <<>>
    /\ i' = IF InCallback THEN i ELSE 1
    /\ k' = IF InCallback THEN k ELSE 1
    /\ reg0' = IF InCallback THEN reg0 ELSE [f \in Fds |-> Absent]
    /\ UNCHANGED <<isEdgeTriggered, pc, waits>>

\* addDescriptor without the call of _setNonBlocking
AddDescriptor_Blocking(fd, envOk) ==
    /\ CanCall
    /\ envOk
    /\ EnvChoice(envOk)
    /\ monitoredFds' = TryEmplace(monitoredFds, fd)
    /\ UNCHANGED <<kernel, nonBlocking>>
    /\ Called("addDescriptor", fd, {}, nullptr, "none", <<>>)

\* Epoll::addDescriptor; envOk is FALSE when fcntl fails
AddDescriptor(fd, envOk) ==
    /\ CanCall
    /\ isEdgeTriggered \/ envOk
    /\ EnvChoice(envOk)
    /\ monitoredFds' = TryEmplace(monitoredFds, fd)
    /\ nonBlocking' = IF isEdgeTriggered /\ envOk
                      THEN [nonBlocking EXCEPT ![fd] = TRUE]
                      ELSE nonBlocking
    /\ UNCHANGED kernel
    /\ Called("addDescriptor", fd, {}, nullptr,
              IF isEdgeTriggered /\ ~envOk THEN "runtime_error" ELSE "none", <<>>)

\* Epoll::removeDescriptor
RemoveDescriptor(fd) ==
    /\ CanCall
    /\ LET r == RemoveDescriptorEffect(monitoredFds, kernel, fd)
       IN  /\ monitoredFds' = r.reg
           /\ kernel' = r.ker
           /\ Called("removeDescriptor", fd, {}, nullptr, "none", r.ctl)
    /\ UNCHANGED <<nonBlocking, fails>>

\* a handler that calls removeDescriptor(fd) and then addDescriptor(fd) before
\* it returns (both system calls of addDescriptor succeed): the entry of fd is
\* replaced by a new one and the kernel has forgotten fd
RemoveThenAddDescriptor(fd) ==
    /\ CanCall
    /\ InCallback
    /\ LET r == RemoveDescriptorEffect(monitoredFds, kernel, fd)
       IN  /\ monitoredFds' = TryEmplace(r.reg, fd)
           /\ kernel' = r.ker
           /\ kcalls' = kcalls \o r.ctl
           /\ removed' = removed \ {fd}
           /\ fresh' = IF fd \in removed \cup Forgotten(r.ctl) THEN fresh \cup {fd} ELSE fresh
    /\ nonBlocking' = IF isEdgeTriggered THEN [nonBlocking EXCEPT ![fd] = TRUE]
                      ELSE nonBlocking
    /\ last' = [NoCall EXCEPT !.op = "removeDescriptor, addDescriptor", !.fd = fd]
    /\ cbops' = cbops + 1
    /\ cbCalls' = cbCalls \cup {<<"removeDescriptor", fd>>, <<"addDescriptor", fd>>}
    /\ UNCHANGED <<isEdgeTriggered, pc, batch, i, k, log, result, nops, waits, fails, reg0>>

\* Epoll::addEventHandler; envOk is FALSE when the kernel refuses the epoll_ctl
AddEventHandler(fd, eventType, eventHandler, envOk) ==
    /\ CanCall
    /\ EnvChoice(envOk)
    /\ IF monitoredFds[fd] = Absent
       THEN /\ envOk
            /\ UNCHANGED <<monitoredFds, kernel>>
            /\ Called("addEventHandler", fd, eventType, eventHandler, "runtime_error", <<>>)
       ELSE LET md == SetHandlers(monitoredFds[fd], eventType, eventHandler, 1)
                r == ReloadEventHandlers(md, fd, kernel, envOk)
            IN  /\ monitoredFds' = [monitoredFds EXCEPT ![fd] = r.md]
                /\ kernel' = r.ker
                /\ Called("addEventHandler", fd, eventType, eventHandler, r.err, r.ctl)
    /\ UNCHANGED nonBlocking

\* Epoll::removeEventHandler; _monitoredFds.at throws std::out_of_range
RemoveEventHandler(fd, eventType, envOk) ==
    /\ CanCall
    /\ EnvChoice(envOk)
    /\ IF At(monitoredFds, fd)[fd] = Absent
       THEN /\ envOk
            /\ UNCHANGED <<monitoredFds, kernel>>
            /\ Called("removeEventHandler", fd, eventType, nullptr, "out_of_range", <<>>)
       ELSE LET md == ClearHandlers(At(monitoredFds, fd)[fd], eventType, 1)
                r == ReloadEventHandlers(md, fd, kernel, envOk)
            IN  /\ monitoredFds' = [At(monitoredFds, fd) EXCEPT ![fd] = r.md]
                /\ kernel' = r.ker
                /\ Called("removeEventHandler", fd, eventType, nullptr, r.err, r.ctl)
    /\ UNCHANGED nonBlocking

\* ---- Epoll::waitForEvents -------------------------------------------------------

\* the loop without its membership check
Vanished_Unchecked(reg, fd) == FALSE

\* "if (_monitoredFds.count(fd) == 0) return;" at the head of the inner loop
Vanished(reg, fd) == reg[fd] = Absent

\* the test with EPOLLERR taken for a closing event as well
IsClosing_WithErr(events) == (events \cap (EPOLLRDHUP \cup EPOLLHUP \cup EPOLLERR)) # {}

\* "if (events & (EPOLLRDHUP | EPOLLHUP))" after the inner loop
IsClosing(events) == (events \cap (EPOLLRDHUP \cup EPOLLHUP)) # {}

\* the test with the whole mask, "hasHandler(events)", in place of "events & evt"
MustCall_Whole(md, events, evt) == hasHandler(md, events)

\* "if (_monitoredFds.at(fd).hasHandler(events & evt))"
MustCall(md, events, evt) == hasHandler(md, events \cap evt)

\* the entries as they were when waitForEvents was called, where there was one
Entry_Snapshot(reg, fd) ==
    IF pc = "callback" /\ reg0[fd] # Absent THEN reg0[fd] ELSE reg[fd]

\* "_monitoredFds.at(fd)" in the inner loop: the entry as it is now
Entry(reg, fd) == reg[fd]

RECURSIVE RunLoops(_, _, _, _, _, _)

\* the loops with "break" in place of "return" at the membership check: the
\* vanished descriptor is skipped and the next pair is dispatched
RunLoops_Break(b, reg, ker, ctl, ii, kk) ==
    IF ii > Len(b)
    THEN [pc |-> "idle", result |-> "done", i |-> ii, k |-> kk,
          reg |-> reg, ker |-> ker, ctl |-> ctl]
    ELSE IF kk > NumEventTypes
    THEN LET r == IF IsClosing(b[ii].events)
                  THEN RemoveDescriptorEffect(reg, ker, b[ii].fd)
                  ELSE [reg |-> reg, ker |-> ker, ctl |-> <<>>]
         IN  RunLoops(b, r.reg, r.ker, ctl \o r.ctl, ii + 1, 1)
    ELSE IF Vanished(reg, b[ii].fd)
    THEN RunLoops(b, reg, ker, ctl, ii, NumEventTypes + 1)
    ELSE IF MustCall(Entry(reg, b[ii].fd), b[ii].events, allEventTypes[kk])
    THEN [pc |-> "callback", result |-> "none", i |-> ii, k |-> kk,
          reg |-> reg, ker |-> ker, ctl |-> ctl]
    ELSE RunLoops(b, reg, ker, ctl, ii, kk + 1)

\* The two loops of waitForEvents over the batch b, run from the head of the
\* inner loop at pair ii and event type kk up to the next handler call
\* (pc = "callback", the handler is that of allEventTypes[k] of pair i) or up to
\* the return from waitForEvents (pc = "idle").
RunLoops(b, reg, ker, ctl, ii, kk) ==
    IF ii > Len(b)
    THEN [pc |-> "idle", result |-> "done", i |-> ii, k |-> kk,
          reg |-> reg, ker |-> ker, ctl |-> ctl]
    ELSE IF kk > NumEventTypes
    THEN LET r == IF IsClosing(b[ii].events)
                  THEN RemoveDescriptorEffect(reg, ker, b[ii].fd)
                  ELSE [reg |-> reg, ker |-> ker, ctl |-> <<>>]
         IN  RunLoops(b, r.reg, r.ker, ctl \o r.ctl, ii + 1, 1)
    ELSE IF Vanished(reg, b[ii].fd)
    THEN [pc |-> "idle", result |-> "vanished", i |-> ii, k |-> kk,
          reg |-> reg, ker |-> ker, ctl |-> ctl]
    ELSE IF reg[b[ii].fd] = Absent
    THEN \* _monitoredFds.at(fd) throws std::out_of_range
         [pc |-> "idle", result |-> "out_of_range", i |-> ii, k |-> kk,
          reg |-> reg, ker |-> ker, ctl |-> ctl]
    ELSE IF MustCall(Entry(reg, b[ii].fd), b[ii].events, allEventTypes[kk])
    THEN [pc |-> "callback", result |-> "none", i |-> ii, k |-> kk,
          reg |-> reg, ker |-> ker, ctl |-> ctl]
    ELSE RunLoops(b, reg, ker, ctl, ii, kk + 1)

\* the state after the loops ran to r; a handler call is appended to the log
Continue(b, r) ==
    /\ pc' = r.pc
    /\ result' = r.result
    /\ i' = r.i
    /\ k' = r.k
    /\ monitoredFds' = r.reg
    /\ kernel' = r.ker
    /\ kcalls' = r.ctl
    /\ LET gone == Forgotten(SubSeq(r.ctl, (IF pc = "idle" THEN 0 ELSE Len(kcalls)) + 1,
                                    Len(r.ctl)))
       IN  /\ removed' = removed \cup gone
           /\ fresh' = fresh \ gone
    /\ log' = IF r.pc = "callback"
              THEN Append(IF pc = "idle" THEN <<>> ELSE log,
                          [fd |-> b[r.i].fd, evt |-> allEventTypes[r.k],
                           cb |-> getHandler(Entry(r.reg, b[r.i].fd),
                                             b[r.i].events \cap allEventTypes[r.k])])
              ELSE IF pc = "idle" THEN <<>> ELSE log

\* waitForEvents is called: epoll_wait returns a batch and the loops start
WaitBegin ==
    /\ pc = "idle"
    /\ waits < MaxWaits
    /\ \E b \in Reports(kernel) :
          /\ batch' = b
          /\ Continue(b, RunLoops(b, monitoredFds, kernel, <<>>, 1, 1))
    /\ cbCalls' = {}
    /\ reg0' = monitoredFds
    /\ waits' = waits + 1
    /\ last' = [NoCall EXCEPT !.op = "waitForEvents"]
    /\ UNCHANGED <<isEdgeTriggered, nonBlocking, nops, cbops, fails>>

\* the handler returns and the inner loop goes on to the next event type
CallbackReturn ==
    /\ pc = "callback"
    /\ Continue(batch, RunLoops(batch, monitoredFds, kernel, kcalls, i, k + 1))
    /\ UNCHANGED <<isEdgeTriggered, nonBlocking, batch, last, nops, cbops, waits,
                   fails, reg0, cbCalls>>

\* the handler throws (as onClientWrite of main.cpp does): the exception leaves
\* waitForEvents
CallbackThrow ==
    /\ pc = "callback"
    /\ pc' = "idle"
    /\ result' = "threw"
    /\ UNCHANGED <<isEdgeTriggered, monitoredFds, kernel, nonBlocking, batch, i, k, log,
                   last, nops, cbops, waits, kcalls, fails, reg0, cbCalls,
                   removed, fresh>>

\* ---- specification ----------------------------------------------------------------

\* the calls the caller makes between waitForEvents calls; Env is the set of
\* outcomes the environment may choose for their system calls
CallerAddDescriptor(Env) ==
    pc = "idle" /\ \E fd \in Fds, envOk \in Env : AddDescriptor(fd, envOk)

CallerRemoveDescriptor ==
    pc = "idle" /\ \E fd \in Fds : RemoveDescriptor(fd)

CallerAddEventHandler(Env) ==
    pc = "idle" /\ \E fd \in Fds, m \in MaskInputs, cb \in Callbacks, envOk \in Env :
                      AddEventHandler(fd, m, cb, envOk)

CallerRemoveEventHandler(Env) ==
    pc = "idle" /\ \E fd \in Fds, m \in MaskInputs, envOk \in Env :
                      RemoveEventHandler(fd, m, envOk)

\* the calls a running handler makes, for its own descriptor or another one
CallbackAddDescriptor ==
    InCallback /\ \E fd \in Fds : AddDescriptor(fd, TRUE)

CallbackRemoveDescriptor ==
    InCallback /\ \E fd \in Fds : RemoveDescriptor(fd)

CallbackRemoveThenAddDescriptor ==
    InCallback /\ \E fd \in Fds : RemoveThenAddDescriptor(fd)

CallbackAddEventHandler ==
    InCallback /\ \E fd \in Fds, m \in CallbackMaskInputs, cb \in Callbacks :
                     AddEventHandler(fd, m, cb, TRUE)

CallbackRemoveEventHandler ==
    InCallback /\ \E fd \in Fds, m \in CallbackMaskInputs : RemoveEventHandler(fd, m, TRUE)

\* Spec: the reactor with handlers that do not call back into it, and an
\* environment that may make system calls fail
Next ==
    \/ CallerAddDescriptor(BOOLEAN)
    \/ CallerRemoveDescriptor
    \/ CallerAddEventHandler(BOOLEAN)
    \/ CallerRemoveEventHandler(BOOLEAN)
    \/ WaitBegin
    \/ CallbackReturn
    \/ CallbackThrow

Spec == Init /\ [][Next]_vars

\* SpecCb: the caller sets the reactor up and then only calls waitForEvents (as
\* main.cpp does); the handlers call back into the reactor; the system calls of
\* the environment succeed
Setup == waits = 0

SetupAddDescriptor == Setup /\ CallerAddDescriptor({TRUE})

SetupRemoveDescriptor == Setup /\ CallerRemoveDescriptor

SetupAddEventHandler == Setup /\ CallerAddEventHandler({TRUE})

SetupRemoveEventHandler == Setup /\ CallerRemoveEventHandler({TRUE})

NextCb ==
    \/ SetupAddDescriptor
    \/ SetupRemoveDescriptor
    \/ SetupAddEventHandler
    \/ SetupRemoveEventHandler
    \/ CallbackAddDescriptor
    \/ CallbackRemoveDescriptor
    \/ CallbackRemoveThenAddDescriptor
    \/ CallbackAddEventHandler
    \/ CallbackRemoveEventHandler
    \/ WaitBegin
    \/ CallbackReturn
    \/ CallbackThrow

SpecCb == Init /\ [][NextCb]_vars

TypeOK ==
    /\ isEdgeTriggered \in BOOLEAN
    /\ \A f \in Fds : monitoredFds[f] = Absent \/ monitoredFds[f] \in Descriptors
    /\ \A f \in Fds : kernel[f] = NoSub \/ kernel[f] \subseteq (Cats \cup EPOLLET)
    /\ pc \in {"idle", "dispatch", "callback"}
    /\ result \in {"none", "done", "vanished", "threw", "out_of_range"}
    /\ removed \subseteq Fds
    /\ fresh \subseteq Fds

\* ---- vocabulary of the properties ---------------------------------------------

\* waitForEvents has returned to its caller (no handler threw)
Returned == pc = "idle" /\ result \in {"done", "vanished"}

\* the step is a call of the public interface
CallStep == nops' # nops \/ cbops' # cbops

\* the pairs of the batch
Pairs == 1..Len(batch)

\* how often the handler of event type evt was called for fd in this cycle
Count(fd, evt) == Cardinality({n \in 1..Len(log) : log[n].fd = fd /\ log[n].evt = evt})

\* position of an event type in allEventTypes
Index(evt) == CHOOSE n \in 1..NumEventTypes : allEventTypes[n] = evt

\* no handler of this cycle called the interface for fd
Untouched(fd) == \A c \in cbCalls : c[2] # fd

\* ---- C1 ---------------------------------------------------------------------------

\* C1: dispatch order and multiplicity. When waitForEvents has returned, for
\* every reported pair (fd, events) whose descriptor no handler touched (so it
\* stayed registered with the handlers it had), each of the six event types
\* that is in events and has a handler was called exactly once for fd, no
\* other event type was called for fd, and the calls for fd came in the order
\* of allEventTypes.
C1_DispatchOrderAndMultiplicity ==
    Returned =>
        \A j \in Pairs :
            LET fd == batch[j].fd
                ev == batch[j].events
            IN  Untouched(fd) =>
                    /\ \A n \in 1..NumEventTypes :
                          Count(fd, allEventTypes[n]) =
                              IF hasHandler(reg0[fd], ev \cap allEventTypes[n]) THEN 1 ELSE 0
                    /\ \A x, y \in 1..Len(log) :
                          (x < y /\ log[x].fd = fd /\ log[y].fd = fd)
                              => Index(log[x].evt) < Index(log[y].evt)

\* ---- C2 ---------------------------------------------------------------------------

\* a handler is called by this step
Invokes == pc' = "callback" /\ (pc = "idle" \/ log' # log)

\* C2: mutation during dispatch. The loop never looks up a descriptor that is
\* not in the registry (the lookup would throw std::out_of_range), and every
\* handler call is for a descriptor that is in the registry at the moment of
\* the call, whatever the handlers called before it did to the registry.
C2_MutationDuringDispatchSafe ==
    /\ [](result # "out_of_range")
    /\ [][Invokes => monitoredFds'[log'[Len(log')].fd] # Absent]_vars

\* C2 witness: a handler removed the descriptor being dispatched, which had
\* more event types to go, and waitForEvents returned
C2_Witness ==
    /\ pc = "idle"
    /\ result = "vanished"
    /\ <<"removeDescriptor", batch[i].fd>> \in cbCalls
    /\ Cardinality(batch[i].events) > 1
    /\ k < NumEventTypes

\* ---- C3 ---------------------------------------------------------------------------

\* C3: every ready descriptor of a batch is dispatched. When waitForEvents has
\* returned, every reported pair whose descriptor no handler touched had each
\* handler of an event type in its events called, and was removed when its
\* events say it is closing.
C3_EveryPairDispatched ==
    Returned =>
        \A j \in Pairs :
            LET fd == batch[j].fd
                ev == batch[j].events
            IN  Untouched(fd) =>
                    /\ \A n \in 1..NumEventTypes :
                          hasHandler(reg0[fd], ev \cap allEventTypes[n])
                              => Count(fd, allEventTypes[n]) >= 1
                    /\ IsClosing(ev) => monitoredFds[fd] = Absent

\* the reported events hold the hangup or the peer-half-closed bit
IsClosing_Spec(events) == "HUP" \in events \/ "RDHUP" \in events

\* ---- C4 ---------------------------------------------------------------------------

\* the entry has a handler for EPOLLHUP or for EPOLLRDHUP
HasHangupHandler(md) == hasHandler(md, EPOLLHUP) \/ hasHandler(md, EPOLLRDHUP)

\* C4: automatic cleanup on hang-up. When waitForEvents has returned, every
\* reported pair whose events hold EPOLLHUP or EPOLLRDHUP and whose descriptor
\* had a handler for one of them when the call began is absent from the
\* registry, unless a handler called addDescriptor for it.
C4_HangupCleanup ==
    Returned =>
        \A j \in Pairs :
            LET fd == batch[j].fd
            IN  ( /\ IsClosing(batch[j].events)
                  /\ HasHangupHandler(reg0[fd])
                  /\ <<"addDescriptor", fd>> \notin cbCalls )
                    => monitoredFds[fd] = Absent

\* ---- C5 ---------------------------------------------------------------------------

\* C5: no automatic cleanup without a hang-up handler. When waitForEvents has
\* returned, every reported descriptor that had no handler for EPOLLHUP or
\* EPOLLRDHUP when the call began, and for which no handler called the
\* interface, is still in the registry.
C5_NoCleanupWithoutHangupHandler ==
    Returned =>
        \A j \in Pairs :
            LET fd == batch[j].fd
            IN  (~HasHangupHandler(reg0[fd]) /\ Untouched(fd))
                    => monitoredFds[fd] # Absent

\* ---- C6 ---------------------------------------------------------------------------

\* the epoll_ctl calls of this cycle that are for fd
KernelCallsFor(fd) == {n \in 1..Len(kcalls) : kcalls[n].fd = fd}

\* C6: non-hang-up events never deregister. When waitForEvents has returned and
\* no handler called the interface, every reported pair whose events hold
\* neither EPOLLHUP nor EPOLLRDHUP has its descriptor registered with the entry
\* (handlers, isInitialized) it had when the call began and its subscription
\* untouched, and no epoll_ctl call was made for it; when no pair of the batch
\* is closing no epoll_ctl call was made at all; and a batch of the single pair
\* (fd, EPOLLIN) with an EPOLLIN handler on fd gave exactly one handler call,
\* that of the EPOLLIN handler with fd.
C6_NonHangupKeepsDescriptor ==
    (Returned /\ cbCalls = {}) =>
        /\ \A j \in Pairs :
              LET fd == batch[j].fd
              IN  ~IsClosing_Spec(batch[j].events) =>
                      /\ monitoredFds[fd] # Absent
                      /\ monitoredFds[fd] = reg0[fd]
                      /\ kernel[fd] # NoSub
                      /\ KernelCallsFor(fd) = {}
        /\ (\A j \in Pairs : ~IsClosing_Spec(batch[j].events)) => kcalls = <<>>
        /\ (Len(batch) = 1 /\ batch[1].events = EPOLLIN
                /\ reg0[batch[1].fd].h["IN"] # nullptr)
               => log = <<[fd |-> batch[1].fd, evt |-> EPOLLIN,
                           cb |-> reg0[batch[1].fd].h["IN"]]>>

\* C6 witness: a level-triggered reactor returned from a wait that reported
\* EPOLLIN for one descriptor with an EPOLLIN handler
C6_Witness ==
    /\ Returned
    /\ cbCalls = {}
    /\ ~isEdgeTriggered
    /\ Len(batch) = 1
    /\ batch[1].events = EPOLLIN
    /\ Len(log) = 1
    /\ monitoredFds[batch[1].fd] # Absent

\* ---- C7 ---------------------------------------------------------------------------

\* the step is a call of operation op
Calls(op) == CallStep /\ last'.op = op

\* the entries of all descriptors but fd are what they were
OthersUnchanged(fd) == \A g \in Fds \ {fd} : monitoredFds'[g] = monitoredFds[g]

\* the step made no epoll_ctl call
NoKernelCall ==
    /\ kernel' = kernel
    /\ kcalls' = IF InCallback THEN kcalls ELSE <<>>

\* C7: addDescriptor is idempotent on the registry. A call addDescriptor(fd)
\* for a registered fd leaves its entry (six handlers, isInitialized) as it
\* was; for an fd that is not registered it creates an entry with six empty
\* handlers and isInitialized = FALSE; either way the other entries are
\* unchanged and no epoll_ctl call is made.
C7_AddDescriptorIdempotent ==
    [][Calls("addDescriptor") =>
          LET fd == last'.fd
          IN  /\ IF monitoredFds[fd] # Absent
                 THEN monitoredFds'[fd] = monitoredFds[fd]
                 ELSE /\ monitoredFds'[fd] # Absent
                      /\ monitoredFds'[fd].isInitialized = FALSE
                      /\ \A c \in Cats : monitoredFds'[fd].h[c] = nullptr
              /\ OthersUnchanged(fd)
              /\ NoKernelCall]_vars

\* C7 witness: addDescriptor was called for a descriptor that had a
\* subscription and a handler, and still has them
C7_Witness ==
    /\ last.op = "addDescriptor"
    /\ monitoredFds[last.fd] # Absent
    /\ monitoredFds[last.fd].isInitialized
    /\ \E c \in Cats : monitoredFds[last.fd].h[c] # nullptr

\* ---- C8 ---------------------------------------------------------------------------

\* C8: operations on an unregistered descriptor are rejected. A call of
\* addEventHandler or removeEventHandler for an fd that is not in the registry
\* throws, makes no epoll_ctl call and leaves the registry as it was.
C8_UnregisteredRejected ==
    [][((Calls("addEventHandler") \/ Calls("removeEventHandler"))
            /\ monitoredFds[last'.fd] = Absent) =>
          /\ last'.err # "none"
          /\ monitoredFds' = monitoredFds
          /\ NoKernelCall]_vars

\* C8 witness: removeEventHandler was rejected for an unregistered descriptor
\* while another descriptor was registered
C8_Witness ==
    /\ last.op = "removeEventHandler"
    /\ last.err = "out_of_range"
    /\ monitoredFds[last.fd] = Absent
    /\ \E g \in Fds : monitoredFds[g] # Absent

\* ---- C9 ---------------------------------------------------------------------------

\* C9: addEventHandler installs by mask. After a call
\* addEventHandler(fd, mask, cb) that did not throw, fd is registered, each of
\* the six handlers of fd whose event type is in mask is cb, each other handler
\* of fd is what it was, and the entries of the other descriptors are unchanged.
C9_AddEventHandlerByMask ==
    [][(Calls("addEventHandler") /\ last'.err = "none") =>
          LET fd == last'.fd
          IN  /\ monitoredFds[fd] # Absent
              /\ monitoredFds'[fd] # Absent
              /\ \A c \in Cats :
                    monitoredFds'[fd].h[c] =
                        IF c \in last'.events THEN last'.cb ELSE monitoredFds[fd].h[c]
              /\ OthersUnchanged(fd)]_vars

\* C9 witness: addEventHandler(fd, EPOLLIN | EPOLLOUT, cb) succeeded on an fd
\* that keeps another callback for an event type outside the mask
C9_Witness ==
    /\ last.op = "addEventHandler"
    /\ last.err = "none"
    /\ last.events = EPOLLIN \cup EPOLLOUT
    /\ monitoredFds[last.fd].h["IN"] = last.cb
    /\ monitoredFds[last.fd].h["OUT"] = last.cb
    /\ \E c \in Cats : monitoredFds[last.fd].h[c] \notin {nullptr, last.cb}

\* ---- C10 --------------------------------------------------------------------------

\* C10: removeEventHandler clears exactly the masked event types. After a call
\* removeEventHandler(fd, mask) that did not throw, fd is still registered,
\* each of its six handlers whose event type is in mask is empty, each other
\* handler is what it was, and the entries of the other descriptors are
\* unchanged.
C10_RemoveEventHandlerByMask ==
    [][(Calls("removeEventHandler") /\ last'.err = "none") =>
          LET fd == last'.fd
          IN  /\ monitoredFds[fd] # Absent
              /\ monitoredFds'[fd] # Absent
              /\ \A c \in Cats :
                    monitoredFds'[fd].h[c] =
                        IF c \in last'.events THEN nullptr ELSE monitoredFds[fd].h[c]
              /\ OthersUnchanged(fd)]_vars

\* C10 witness: removeEventHandler(fd, EPOLLIN) succeeded on an fd that keeps
\* its EPOLLOUT handler
C10_Witness ==
    /\ last.op = "removeEventHandler"
    /\ last.err = "none"
    /\ last.events = EPOLLIN
    /\ ~hasHandler(monitoredFds[last.fd], EPOLLIN)
    /\ hasHandler(monitoredFds[last.fd], EPOLLOUT)

\* ---- C11 --------------------------------------------------------------------------

\* the step is a call of addEventHandler or removeEventHandler
CallsHandlerOp == Calls("addEventHandler") \/ Calls("removeEventHandler")

\* the event types of the entry that hold a handler
HandlerBits(md) == {c \in Cats : md.h[c] # nullptr}

\* C11: the kernel subscription tracks the handler set. After a call of
\* addEventHandler or removeEventHandler that did not throw, made by the caller
\* or by a handler, the subscription of fd is exactly the set of the event
\* types of fd that hold a handler, with EPOLLET added if and only if the
\* reactor is edge-triggered (also when no handler is left); nothing of the
\* previous subscription remains.
C11_SubscriptionTracksHandlers ==
    [][(CallsHandlerOp /\ last'.err = "none") =>
          LET fd == last'.fd
          IN  /\ monitoredFds'[fd] # Absent
              /\ kernel'[fd] # NoSub
              /\ kernel'[fd] = HandlerBits(monitoredFds'[fd])
                                  \cup (IF isEdgeTriggered THEN {"ET"} ELSE {})]_vars

\* C11 witness: in an edge-triggered reactor a handler removed the last
\* handlers of a subscribed descriptor, whose subscription is now EPOLLET alone
C11_Witness ==
    /\ isEdgeTriggered
    /\ pc = "callback"
    /\ last.op = "removeEventHandler"
    /\ last.err = "none"
    /\ <<"removeEventHandler", last.fd>> \in cbCalls
    /\ HandlerBits(monitoredFds[last.fd]) = {}
    /\ kernel[last.fd] = {"ET"}
    /\ Len(kcalls) > 0
    /\ kcalls[Len(kcalls)].op = "MOD"

\* ---- C12 --------------------------------------------------------------------------

\* the epoll_ctl calls this step made
NewKernelCalls == IF InCallback THEN SubSeq(kcalls', Len(kcalls) + 1, Len(kcalls')) ELSE kcalls'

\* C12: re-adding a removed descriptor starts a fresh subscription. An
\* addDescriptor(fd) that follows a removal of fd (by removeDescriptor or by the
\* hang-up cleanup of waitForEvents) creates an entry with isInitialized = FALSE
\* and six empty handlers; the entry stays so until the first addEventHandler
\* or removeEventHandler for fd; and that call issues exactly one epoll_ctl
\* call, an EPOLL_CTL_ADD for fd, never an EPOLL_CTL_MOD.
C12_ReAddStartsFresh ==
    /\ [](\A fd \in fresh :
              /\ monitoredFds[fd] # Absent
              /\ monitoredFds[fd].isInitialized = FALSE
              /\ \A c \in Cats : monitoredFds[fd].h[c] = nullptr)
    /\ [][(Calls("addDescriptor") /\ last'.fd \in removed) =>
              /\ monitoredFds'[last'.fd] # Absent
              /\ monitoredFds'[last'.fd].isInitialized = FALSE
              /\ \A c \in Cats : monitoredFds'[last'.fd].h[c] = nullptr]_vars
    /\ [][(CallsHandlerOp /\ last'.fresh) =>
              /\ Len(NewKernelCalls) = 1
              /\ NewKernelCalls[1].op = "ADD"
              /\ NewKernelCalls[1].fd = last'.fd]_vars

\* C12 witness: a descriptor was removed and added again, waitForEvents ran in
\* between or after, and the first addEventHandler for the new entry made the
\* kernel add the descriptor
C12_Witness ==
    /\ waits > 0
    /\ pc = "idle"
    /\ last.op = "addEventHandler"
    /\ last.fresh
    /\ last.err = "none"
    /\ kcalls = <<[op |-> "ADD", fd |-> last.fd, events |-> kernel[last.fd], ok |-> TRUE]>>
    /\ monitoredFds[last.fd].isInitialized

\* ---- C13 --------------------------------------------------------------------------

\* the kernel holds a subscription for fd
Subscribed(fd) == kernel[fd] # NoSub

\* C13: the registry and the kernel agree. In every reachable state the kernel
\* holds a subscription for fd if and only if fd has an entry whose
\* isInitialized is TRUE (so no subscription outlives its entry); and every
\* EPOLL_CTL_ADD the reactor issues is for a descriptor the kernel holds no
\* subscription for, every EPOLL_CTL_MOD for one it holds a subscription for.
C13_RegistryKernelLink ==
    /\ [](\A fd \in Fds :
              Subscribed(fd) <=> (monitoredFds[fd] # Absent /\ monitoredFds[fd].isInitialized))
    /\ [][\A n \in 1..Len(NewKernelCalls) :
              /\ NewKernelCalls[n].op = "ADD" => ~Subscribed(NewKernelCalls[n].fd)
              /\ NewKernelCalls[n].op = "MOD" => Subscribed(NewKernelCalls[n].fd)]_vars

\* C13 witness: the EPOLL_CTL_ADD of one descriptor failed, leaving an entry
\* with handlers, isInitialized = FALSE and no subscription, while another
\* descriptor is initialized and subscribed
C13_Witness ==
    /\ last.op = "addEventHandler"
    /\ last.err = "runtime_error"
    /\ monitoredFds[last.fd] # Absent
    /\ ~monitoredFds[last.fd].isInitialized
    /\ ~Subscribed(last.fd)
    /\ kcalls = <<[op |-> "ADD", fd |-> last.fd,
                   events |-> HandlerBits(monitoredFds[last.fd])
                                \cup (IF isEdgeTriggered THEN {"ET"} ELSE {}),
                   ok |-> FALSE]>>
    /\ \E g \in Fds : Subscribed(g) /\ monitoredFds[g] # Absent /\ monitoredFds[g].isInitialized

\* ---- C14 --------------------------------------------------------------------------

\* C14: removeDescriptor is best-effort and total. A call removeDescriptor(fd)
\* throws nothing; when fd is registered it issues one EPOLL_CTL_DEL for fd and
\* erases the entry of fd whether that call succeeds or fails, leaving the
\* entries of the other descriptors as they were; when fd is not registered it
\* issues no epoll_ctl call and leaves registry and subscriptions as they were.
C14_RemoveDescriptorTotal ==
    [][Calls("removeDescriptor") =>
          LET fd == last'.fd
          IN  /\ last'.err = "none"
              /\ IF monitoredFds[fd] # Absent
                 THEN /\ monitoredFds'[fd] = Absent
                      /\ OthersUnchanged(fd)
                      /\ Len(NewKernelCalls) = 1
                      /\ NewKernelCalls[1].op = "DEL"
                      /\ NewKernelCalls[1].fd = fd
                 ELSE /\ monitoredFds' = monitoredFds
                      /\ kernel' = kernel
                      /\ NewKernelCalls = <<>>]_vars

\* C14 witness: removeDescriptor erased an entry although its EPOLL_CTL_DEL
\* failed (the descriptor had no subscription), and another entry is untouched
C14_Witness ==
    /\ last.op = "removeDescriptor"
    /\ last.err = "none"
    /\ pc = "idle"
    /\ kcalls = <<[op |-> "DEL", fd |-> last.fd, events |-> {}, ok |-> FALSE]>>
    /\ monitoredFds[last.fd] = Absent
    /\ \E g \in Fds : monitoredFds[g] # Absent /\ HandlerBits(monitoredFds[g]) # {}

\* ---- C15 --------------------------------------------------------------------------

\* C15: a failing system call leaves the registry as it was before that call.
\* (1) When the EPOLL_CTL_ADD or EPOLL_CTL_MOD of addEventHandler or
\* removeEventHandler fails, the operation throws, and the registry is what it
\* was when the kernel call was made: the handlers of the mask already
\* written (the callback, or empty for removeEventHandler), the other handlers,
\* isInitialized and the other entries as before; the subscriptions are as
\* before. (2) A failing kernel call always surfaces as an exception of the
\* operation. (3) When the fcntl of addDescriptor fails, the operation throws
\* and the registry is what try_emplace left: an existing entry unchanged, a
\* new entry empty and not initialized, the blocking mode and the
\* subscriptions as before. (4) After a failed EPOLL_CTL_ADD the next
\* addEventHandler or removeEventHandler for that descriptor issues
\* EPOLL_CTL_ADD again, not EPOLL_CTL_MOD.
C15_FailureLeavesPriorState ==
    /\ [][(CallsHandlerOp /\ last'.err = "runtime_error"
                /\ monitoredFds[last'.fd] # Absent) =>
              LET fd == last'.fd
              IN  /\ Len(NewKernelCalls) = 1
                  /\ ~NewKernelCalls[1].ok
                  /\ kernel' = kernel
                  /\ monitoredFds'[fd] # Absent
                  /\ monitoredFds'[fd].isInitialized = monitoredFds[fd].isInitialized
                  /\ \A c \in Cats :
                        monitoredFds'[fd].h[c] =
                            IF c \in last'.events THEN last'.cb ELSE monitoredFds[fd].h[c]
                  /\ OthersUnchanged(fd)]_vars
    /\ [][(CallsHandlerOp /\ \E n \in 1..Len(NewKernelCalls) : ~NewKernelCalls[n].ok)
              => last'.err = "runtime_error"]_vars
    /\ [][(Calls("addDescriptor") /\ last'.err # "none") =>
              LET fd == last'.fd
              IN  /\ isEdgeTriggered
                  /\ last'.err = "runtime_error"
                  /\ nonBlocking' = nonBlocking
                  /\ NoKernelCall
                  /\ monitoredFds'[fd] =
                        (IF monitoredFds[fd] = Absent
                         THEN [isInitialized |-> FALSE, h |-> [c \in Cats |-> nullptr]]
                         ELSE monitoredFds[fd])
                  /\ OthersUnchanged(fd)]_vars
    /\ [][(CallsHandlerOp /\ pc = "idle" /\ last.err = "runtime_error"
                /\ last.op \in {"addEventHandler", "removeEventHandler"}
                /\ last.fd = last'.fd
                /\ Len(kcalls) = 1 /\ kcalls[1].op = "ADD") =>
              /\ Len(NewKernelCalls) = 1
              /\ NewKernelCalls[1].op = "ADD"]_vars

\* C15 witness: the EPOLL_CTL_MOD of addEventHandler failed on a subscribed
\* descriptor: the call threw, the handler is written, the subscription is the
\* old one
C15_Witness ==
    /\ last.op = "addEventHandler"
    /\ last.err = "runtime_error"
    /\ monitoredFds[last.fd] # Absent
    /\ kcalls = <<[op |-> "MOD", fd |-> last.fd,
                   events |-> HandlerBits(monitoredFds[last.fd])
                                \cup (IF isEdgeTriggered THEN {"ET"} ELSE {}),
                   ok |-> FALSE]>>
    /\ monitoredFds[last.fd].isInitialized
    /\ Subscribed(last.fd)
    /\ (kernel[last.fd] \cap Cats) # HandlerBits(monitoredFds[last.fd])

\* ---- C16 --------------------------------------------------------------------------

\* the step belongs to waitForEvents: its call, or the return of a handler
WaitStep == ~CallStep /\ (waits' # waits \/ (pc = "callback" /\ result' # "threw"))

\* event words that are not one event type: nothing, EPOLLET, another bit, unions
OddEvents ==
    { {}, {"ET"}, {"MSG"}, {"IN", "ET"}, {"HUP", "MSG"}, {"IN", "OUT"}, Cats \cup {"ET"} }

\* C16: the wait loop raises nothing of its own. (1) waitForEvents ends by
\* returning or by an exception a handler threw, never by the std::out_of_range
\* of a lookup or by the exception of getHandler. (2) Every getHandler call of
\* the loop has one of the six event types as its argument, and the descriptor
\* it is made for is in the registry. (3) A wait that reports nothing returns
\* at once without calling a handler or changing the registry. (4) A failing
\* EPOLL_CTL_DEL of the hang-up cleanup does not stop the loop: the entry is
\* erased and the call goes on or returns normally. (5) For event words that
\* are not one event type the loop's test never leads to a getHandler call with
\* an argument getHandler rejects.
C16_WaitLoopNeverRaises ==
    /\ [](result \in {"none", "done", "vanished", "threw"})
    /\ [][(result' = "threw" /\ result # "threw") => pc = "callback"]_vars
    /\ [][Invokes =>
              /\ IsEventType(batch'[i'].events \cap allEventTypes[k'])
              /\ monitoredFds'[batch'[i'].fd] # Absent
              /\ hasHandler(monitoredFds'[batch'[i'].fd],
                            batch'[i'].events \cap allEventTypes[k'])]_vars
    /\ []((Returned /\ batch = <<>>) => (log = <<>> /\ kcalls = <<>> /\ monitoredFds = reg0))
    /\ [][(WaitStep /\ \E n \in 1..Len(NewKernelCalls) : ~NewKernelCalls[n].ok) =>
              /\ result' \in {"none", "done", "vanished"}
              /\ \A n \in 1..Len(NewKernelCalls) :
                    monitoredFds'[NewKernelCalls[n].fd] = Absent]_vars
    /\ [](\A fd \in Fds : \A ev \in OddEvents : \A n \in 1..NumEventTypes :
              (monitoredFds[fd] # Absent /\ MustCall(monitoredFds[fd], ev, allEventTypes[n]))
                  => IsEventType(ev \cap allEventTypes[n]))

\* C16 witness: a handler of the first pair removed and added again the
\* descriptor of the second pair, which reported a hang-up; the EPOLL_CTL_DEL
\* of the cleanup failed, the entry was erased and waitForEvents returned
C16_Witness ==
    /\ Returned
    /\ result = "done"
    /\ Len(batch) = 2
    /\ IsClosing_Spec(batch[2].events)
    /\ <<"addDescriptor", batch[2].fd>> \in cbCalls
    /\ monitoredFds[batch[2].fd] = Absent
    /\ Len(kcalls) > 0
    /\ kcalls[Len(kcalls)] = [op |-> "DEL", fd |-> batch[2].fd, events |-> {}, ok |-> FALSE]
    /\ Len(log) > 0

\* ---- C17 --------------------------------------------------------------------------

\* C17: the triggering mode is fixed and applied to every descriptor.
\* _isEdgeTriggered never changes. In an edge-triggered reactor every
\* addDescriptor(fd) that returns has set O_NONBLOCK on fd (registered before
\* or not), and one whose fcntl fails throws std::runtime_error and leaves the
\* blocking modes as they were. In a level-triggered reactor addDescriptor
\* throws nothing and changes no blocking mode, and no subscription and no
\* epoll_ctl call carries EPOLLET, whatever masks the callers pass.
C17_TriggerModeFixed ==
    /\ [][isEdgeTriggered' = isEdgeTriggered]_vars
    /\ [][Calls("addDescriptor") =>
              IF isEdgeTriggered
              THEN /\ last'.err \in {"none", "runtime_error"}
                   /\ last'.err = "none" =>
                        /\ nonBlocking'[last'.fd]
                        /\ \A g \in Fds \ {last'.fd} : nonBlocking'[g] = nonBlocking[g]
                   /\ last'.err = "runtime_error" => nonBlocking' = nonBlocking
              ELSE /\ last'.err = "none"
                   /\ nonBlocking' = nonBlocking]_vars
    /\ [](~isEdgeTriggered =>
              /\ \A fd \in Fds : Subscribed(fd) => "ET" \notin kernel[fd]
              /\ \A n \in 1..Len(kcalls) : "ET" \notin kcalls[n].events
              /\ \A fd \in Fds : ~nonBlocking[fd])

\* C17 witness: in an edge-triggered reactor addDescriptor was called again
\* for a registered descriptor whose first fcntl had failed, and set O_NONBLOCK
C17_Witness ==
    /\ isEdgeTriggered
    /\ last.op = "addDescriptor"
    /\ last.err = "none"
    /\ fails > 0
    /\ nonBlocking[last.fd]
    /\ \A g \in Fds \ {last.fd} : ~nonBlocking[g]
    /\ nops >= 2

\* ---- C18 --------------------------------------------------------------------------

\* C18: the operations of an entry act on exactly one event type. For every
\* entry of the registry, every one of the six event types c and every handler
\* cb (empty included): setHandler(c, cb) makes slot c hold cb and leaves the
\* other five slots and isInitialized as they were, hasHandler(c) is TRUE
\* exactly when slot c is not empty, and getHandler(c) is what slot c holds.
\* For an argument that is not one event type (0, a union, another bit),
\* hasHandler is FALSE, setHandler changes nothing and getHandler throws.
C18_EntryOperationsOneCategory ==
    \A fd \in Fds :
        monitoredFds[fd] # Absent =>
            LET md == monitoredFds[fd]
            IN  /\ \A c \in Cats :
                      /\ hasHandler(md, {c}) <=> (md.h[c] # nullptr)
                      /\ getHandler(md, {c}) = md.h[c]
                      /\ \A cb \in Handlers :
                            LET after == setHandler(md, {c}, cb)
                            IN  /\ after.h[c] = cb
                                /\ \A d \in Cats \ {c} : after.h[d] = md.h[d]
                                /\ after.isInitialized = md.isInitialized
                                /\ hasHandler(after, {c}) <=> (cb # nullptr)
                /\ \A ev \in OddEvents :
                      /\ ~hasHandler(md, ev)
                      /\ \A cb \in Handlers : setHandler(md, ev, cb) = md
                      /\ getHandler(md, ev) = "invalid"

\* C18 witness: an entry holds different callbacks in two slots and nothing in
\* a third, put there by addEventHandler calls
C18_Witness ==
    \E fd \in Fds :
        /\ monitoredFds[fd] # Absent
        /\ monitoredFds[fd].h["IN"] # nullptr
        /\ monitoredFds[fd].h["HUP"] # nullptr
        /\ monitoredFds[fd].h["IN"] # monitoredFds[fd].h["HUP"]
        /\ monitoredFds[fd].h["OUT"] = nullptr
        /\ last.op = "addEventHandler"
        /\ last.fd = fd

\* ---- C19 --------------------------------------------------------------------------

\* the step is the return of a handler to the loop of waitForEvents
HandlerReturns == pc = "callback" /\ ~CallStep /\ result' # "threw"

\* the descriptor being dispatched is not in the registry
CurrentGone == monitoredFds[batch[i].fd] = Absent

\* the step leaves waitForEvents where it stands: no handler is called, no entry
\* and no subscription is touched
Abandons ==
    /\ pc' = "idle"
    /\ log' = log
    /\ monitoredFds' = monitoredFds
    /\ kernel' = kernel
    /\ kcalls' = kcalls

\* the pairs whose turn comes in this step of waitForEvents
TurnsOfStep == {j \in 1..Len(batch') : (IF pc = "idle" THEN 0 ELSE i) < j /\ j <= i'}

\* a pair whose turn comes while its descriptor is absent ends the call there,
\* and the pairs after it keep their entries
AbsentAtTurnReturns ==
    WaitStep =>
        \A j \in TurnsOfStep :
            monitoredFds[batch'[j].fd] = Absent =>
                /\ i' = j
                /\ pc' = "idle"
                /\ result' = "vanished"
                /\ \A m \in (j + 1)..Len(batch') :
                      monitoredFds'[batch'[m].fd] = monitoredFds[batch'[m].fd]

\* C19 as stated: whenever a handler of any of the six event types has removed
\* the descriptor being dispatched, or the descriptor of a pair is absent when
\* its turn comes, waitForEvents returns at that moment and calls no handler
\* and removes no descriptor of the remaining pairs.
C19_EarlyReturnAnyCategory ==
    /\ [][(HandlerReturns /\ CurrentGone) => Abandons]_vars
    /\ [][AbsentAtTurnReturns]_vars

\* C19 amended: the return happens at the membership check that precedes each
\* of the six event types. When the handler of one of the first five event
\* types returns and the descriptor being dispatched is absent, or the
\* descriptor of a pair is absent when its turn comes, waitForEvents returns at
\* that moment and the remaining pairs get no handler call and no removal.
\* When the handler of the last event type (EPOLLHUP) returns with the
\* descriptor absent, no check follows and the loop goes on to the next pair.
C19_EarlyReturnAtMembershipCheck ==
    /\ [][(HandlerReturns /\ CurrentGone /\ k < NumEventTypes)
              => (Abandons /\ i' = i /\ result' = "vanished")]_vars
    /\ [][(HandlerReturns /\ CurrentGone /\ k = NumEventTypes)
              => (i' > i /\ result' \in {"none", "done", "vanished"})]_vars
    /\ [][AbsentAtTurnReturns]_vars

\* C19 witness: the handler of the first pair removed its own descriptor and
\* waitForEvents returned, leaving the second pair, registered and with a
\* handler for a reported event type, without a handler call
C19_Witness ==
    /\ pc = "idle"
    /\ result = "vanished"
    /\ Len(batch) = 2
    /\ i = 1
    /\ <<"removeDescriptor", batch[1].fd>> \in cbCalls
    /\ monitoredFds[batch[2].fd] # Absent
    /\ \E n \in 1..NumEventTypes :
          hasHandler(monitoredFds[batch[2].fd], batch[2].events \cap allEventTypes[n])
    /\ \A n \in 1..Len(log) : log[n].fd # batch[2].fd

\* ---- C20 --------------------------------------------------------------------------

\* the event types of the pair being dispatched that this step passes without
\* calling their handler: those between the handler that returned and the one
\* called next, or all the later ones when the step ends the pair
PassedOver ==
    {n \in (k + 1)..NumEventTypes : (i' = i /\ pc' = "callback" /\ n < k') \/ i' > i}

\* C20: handler changes made by a handler take effect in the same cycle. Each
\* slot is read when its event type is reached: (1) the handler called is the
\* one its slot holds at that moment, as the handlers called before left it,
\* for an event type that is reported; (2) when a handler returns, no later
\* event type that is reported and whose slot now holds a handler is passed
\* over, so a handler installed for it by an earlier handler is called and a
\* cleared one is not; (3) the loop only moves forward, so a change to an
\* event type already passed causes no call in this cycle.
C20_HandlerChangesSeenInCycle ==
    /\ [][Invokes =>
              LET e == log'[Len(log')]
              IN  /\ e.fd = batch'[i'].fd
                  /\ e.evt = allEventTypes[k']
                  /\ e.evt \subseteq batch'[i'].events
                  /\ monitoredFds[e.fd] # Absent
                  /\ monitoredFds[e.fd].h[Slot(e.evt)] # nullptr
                  /\ e.cb = monitoredFds[e.fd].h[Slot(e.evt)]]_vars
    /\ [][(HandlerReturns /\ ~CurrentGone) =>
              \A n \in PassedOver :
                  ~hasHandler(monitoredFds[batch[i].fd], batch[i].events \cap allEventTypes[n])]_vars
    /\ [][(HandlerReturns /\ pc' = "callback" /\ i' = i) => k' > k]_vars

\* C20 witness: the handler of an earlier event type installed a handler for a
\* later, reported event type whose slot was empty when the call began, and
\* that new handler has been called in the same cycle
C20_Witness ==
    /\ pc = "callback"
    /\ Len(log) = 2
    /\ log[1].fd = log[2].fd
    /\ cbCalls = {<<"addEventHandler", log[2].fd>>}
    /\ reg0[log[2].fd].h[Slot(log[2].evt)] = nullptr
    /\ log[2].cb = last.cb

====
